---- MODULE Spec2Model ----
(***************************************************************************)
(* Model of playwright-service/app/services/file_manager.py: the           *)
(* FileManager class (name sanitizers, file validator, directory           *)
(* listing/cleanup, rename, and the Excel consolidator).                   *)
(*                                                                         *)
(* Strings are sequences of one-character strings, so that replace,        *)
(* slicing, lower() and endswith() are computed as Python computes them.   *)
(***************************************************************************)
EXTENDS Integers, Sequences, FiniteSets, TLC

VARIABLES
    \* ---- name sanitizer harness
    sanIn,        \* the raw input string
    sanFile,      \* successive results of _sanitize_filename, applied repeatedly
    sanSheet,     \* successive results of _sanitize_sheet_name, applied repeatedly
    \* ---- file validator
    valPath,      \* the filepath argument
    valFile,      \* what is at that path: [exists, size, content, readable]
    valPc,        \* position in validate_excel_file
    valResult,    \* "none" while running, then "true", "false" or "raised"
    \* ---- the filesystem and the clock
    fs,           \* path -> [kind, mtime, data, ino]; kind "none" when nothing is there
    clock,        \* the wall clock, in days
    faultAt,      \* the one path on which a filesystem call fails, or NoName
    faultKind,    \* "stat": its metadata cannot be read; "remove": it cannot be deleted
    vanishLeft,   \* how many files another process may still delete
    vanished,     \* the paths another process deleted
    fs0,          \* the filesystem when the operation started
    \* ---- cleanup_old_files
    clMaxAge,     \* the max_age_days argument
    clPc,         \* position in cleanup_old_files
    clCutoff,     \* cutoff
    clTodo,       \* names of the os.listdir snapshot not yet visited
    clCur,        \* filename of the current iteration
    clDeleted,    \* deleted
    clRemoved,    \* the names cleanup removed
    \* ---- list_downloads
    lsPc,         \* position in list_downloads
    lsTodo,       \* names of the os.listdir snapshot not yet visited
    lsCur,        \* filename of the current iteration
    lsFiles,      \* files
    lsResult,     \* the returned list
    \* ---- consolidate_excel_files, one entry per concurrent call
    jPaths,       \* file_paths: source document ids
    jPrefixes,    \* sheet_names (empty when None)
    jOut,         \* output_filename
    jFault,       \* the failure the call may meet: "none", "copy" or "save"
    jPc,          \* position in consolidate_excel_files
    jIdx,         \* file_idx (from 1)
    jPos,         \* position in source_wb.worksheets (from 1)
    jWb,          \* output_wb
    jCount,       \* sheet_index
    jHandles,     \* the open workbooks: OutHandle and the indexes of open sources
    jErr,         \* why the call failed, "none" otherwise
    jWpos,        \* the next archive member save writes
    jIno,         \* the file the call's save has open
    \* ---- rename_download
    rnOrig,       \* original_path
    rnNew,        \* new_filename
    rnPc,         \* position in rename_download
    \* ---- _make_unique_sheet_name
    uqWb,         \* workbook
    uqName,       \* name
    uqPc,         \* position in _make_unique_sheet_name
    uqExisting,   \* existing_names
    uqCounter,    \* counter
    uqResult      \* the returned name

sanVars == <<sanIn, sanFile, sanSheet>>
valVars == <<valPath, valFile, valPc, valResult>>

fsVars == <<fs, clock, faultAt, faultKind, vanishLeft, vanished, fs0>>
clVars == <<clMaxAge, clPc, clCutoff, clTodo, clCur, clDeleted, clRemoved>>
lsVars == <<lsPc, lsTodo, lsCur, lsFiles, lsResult>>

conVars == <<jPaths, jPrefixes, jOut, jFault, jPc, jIdx, jPos, jWb, jCount, jHandles,
             jErr, jWpos, jIno>>
rnVars == <<rnOrig, rnNew, rnPc>>
uqVars == <<uqWb, uqName, uqPc, uqExisting, uqCounter, uqResult>>

vars == <<sanVars, valVars, fsVars, clVars, lsVars, conVars, rnVars, uqVars>>

(***************************************************************************)
(* String helpers (Python str semantics)                                   *)
(***************************************************************************)

\* Python slice s[:n] for n >= 0
Take(s, n) == IF Len(s) <= n THEN s ELSE SubSeq(s, 1, n)

\* str.replace(ch, '') for a single character ch
RemoveChar(s, ch) == SelectSeq(s, LAMBDA c : c # ch)

\* str.replace(ch, to) for single characters ch, to
ReplaceChar(s, ch, to) == [i \in 1..Len(s) |-> IF s[i] = ch THEN to ELSE s[i]]

\* 'xx' in s
HasDouble(s, ch) == \E i \in 1..(Len(s) - 1) : s[i] = ch /\ s[i + 1] = ch

\* the number of consecutive ch immediately before position i of s
RunBefore(s, i, ch) ==
    LET j == CHOOSE j \in 0..(i - 1) :
                 /\ (j = 0 \/ s[j] # ch)
                 /\ \A k \in (j + 1)..(i - 1) : s[k] = ch
    IN  i - 1 - j

\* str.replace(ch+ch, ch): one left-to-right pass over non-overlapping matches.
\* Within a run of ch the matches are the pairs at offsets (0,1), (2,3), ...:
\* each pair leaves one ch, so exactly the characters at odd offsets are dropped.
ReplaceDouble(s, ch) ==
    LET pairEnd(i) == s[i] = ch /\ RunBefore(s, i, ch) % 2 = 1
        kept == SelectSeq([i \in 1..Len(s) |-> i], LAMBDA i : ~pairEnd(i))
    IN  [k \in 1..Len(kept) |-> s[kept[k]]]

\* the Python expression p * n
Repeat(p, n) == [i \in 1..(Len(p) * n) |-> p[((i - 1) % Len(p)) + 1]]

\* for char in chars: result = result.replace(char, '')
RECURSIVE RemoveAll(_, _)
RemoveAll(s, chars) ==
    IF chars = <<>> THEN s ELSE RemoveAll(RemoveChar(s, Head(chars)), Tail(chars))

\* for char in chars: result = result.replace(char, to)
RECURSIVE ReplaceAll(_, _, _)
ReplaceAll(s, chars, to) ==
    IF chars = <<>> THEN s
    ELSE ReplaceAll(ReplaceChar(s, Head(chars), to), Tail(chars), to)

(***************************************************************************)
(* Name sanitizer                                                          *)
(***************************************************************************)

MaxFileNameLen == 100
MaxSheetNameLen == 31

\* invalid_chars = '<>:"/\\|?*'
FileInvalidChars == <<"<", ">", ":", "\"", "/", "\\", "|", "?", "*">>

\* invalid_chars = '\\/*?:[]'
SheetInvalidChars == <<"\\", "/", "*", "?", ":", "[", "]">>

\* while '__' in result: result = result.replace('__', '_')
RECURSIVE CollapseUnderscores(_)
CollapseUnderscores(s) ==
    IF HasDouble(s, "_") THEN CollapseUnderscores(ReplaceDouble(s, "_")) ELSE s

\* A plausible slip: spaces are replaced after the underscore runs are collapsed.
SanitizeFilenameLateSpaces(name) ==
    Take(ReplaceChar(CollapseUnderscores(RemoveAll(name, FileInvalidChars)), " ", "_"),
         MaxFileNameLen)

\* FileManager._sanitize_filename
SanitizeFilename(name) ==
    Take(CollapseUnderscores(ReplaceChar(RemoveAll(name, FileInvalidChars), " ", "_")),
         MaxFileNameLen)

\* FileManager._sanitize_sheet_name
SanitizeSheetName(name) ==
    Take(ReplaceAll(name, SheetInvalidChars, "_"), MaxSheetNameLen)

(***************************************************************************)
(* File validator: FileManager.validate_excel_file                         *)
(***************************************************************************)

MinExcelSize == 1000
HeaderReadLen == 4

\* str.lower() on the letters that occur in the modelled paths
LowerChar(c) ==
    CASE c = "X" -> "x" [] c = "L" -> "l" [] c = "S" -> "s" [] c = "R" -> "r"
      [] c = "T" -> "t" [] OTHER -> c

Lower(s) == [i \in 1..Len(s) |-> LowerChar(s[i])]

\* str.endswith(suffix)
EndsWith(s, suffix) ==
    /\ Len(s) >= Len(suffix)
    /\ SubSeq(s, Len(s) - Len(suffix) + 1, Len(s)) = suffix

ExcelExtensions == {<<".", "x", "l", "s", "x">>, <<".", "x", "l", "s">>}

\* A plausible slip: a file of exactly 1000 bytes is rejected as well.
TooSmallInclusive(size) == size <= MinExcelSize

\* if size < 1000
TooSmall(size) == size < MinExcelSize

\* filepath.lower().endswith(('.xlsx', '.xls'))
HasExcelExtension(path) == \E e \in ExcelExtensions : EndsWith(Lower(path), e)

\* header[:2] != b'PK' is false
HasZipMagic(header) == Take(header, 2) = <<"P", "K">>

ValPaths ==
    { <<"r", ".", "x", "l", "s", "x">>,
      <<"R", ".", "X", "L", "S", "X">>,
      <<"r", ".", "x", "l", "s">>,
      <<"r", ".", "X", "l", "S">>,
      <<"r", ".", "t", "x", "t">>,
      <<"r", ".", "x", "l", "s", "x", ".", "t", "x", "t">>,
      <<"r", "x", "l", "s", "x">>,
      <<"r", ".", "x", "l", "s", "m">>,
      <<"x", "l", "s">>,
      <<".", "x", "l", "s">>,
      <<>> }

ValSizes == {0, 1, 2, 500, MinExcelSize - 1, MinExcelSize, MinExcelSize + 1, 2000}

\* the first bytes of the modelled file contents (longer than any read)
ValContents ==
    { <<"P", "K", "3", "4", "d">>,
      <<"M", "Z", "9", "0", "d">>,
      <<"P", "Z", "3", "4", "d">>,
      <<"K", "P", "3", "4", "d">>,
      <<"p", "k", "3", "4", "d">> }

ValInit ==
    /\ valPath \in ValPaths
    /\ \E ex \in BOOLEAN, sz \in ValSizes, c \in ValContents, rd \in BOOLEAN :
          valFile = [exists |-> ex, size |-> sz, content |-> Take(c, sz), readable |-> rd]
    /\ valPc = "exists"
    /\ valResult = "none"

ValIdle ==
    /\ valPath = <<>>
    /\ valFile = [exists |-> FALSE, size |-> 0, content |-> <<>>, readable |-> FALSE]
    /\ valPc = "idle"
    /\ valResult = "none"

ValReturn(b) ==
    /\ valPc' = "done"
    /\ valResult' = IF b THEN "true" ELSE "false"

\* if not os.path.exists(filepath): return False
ValCheckExists ==
    /\ valPc = "exists"
    /\ IF ~valFile.exists THEN ValReturn(FALSE)
       ELSE valPc' = "size" /\ UNCHANGED valResult
    /\ UNCHANGED <<valPath, valFile>>

\* size = os.stat(filepath).st_size; if size < 1000: return False
ValCheckSize ==
    /\ valPc = "size"
    /\ IF TooSmall(valFile.size) THEN ValReturn(FALSE)
       ELSE valPc' = "ext" /\ UNCHANGED valResult
    /\ UNCHANGED <<valPath, valFile>>

\* if not filepath.lower().endswith(('.xlsx', '.xls')): return False
ValCheckExtension ==
    /\ valPc = "ext"
    /\ IF ~HasExcelExtension(valPath) THEN ValReturn(FALSE)
       ELSE valPc' = "magic" /\ UNCHANGED valResult
    /\ UNCHANGED <<valPath, valFile>>

\* try: open, header = f.read(4), compare header[:2] with b'PK'
\* except Exception: return False;  otherwise return True
ValCheckMagic ==
    /\ valPc = "magic"
    /\ IF ~valFile.readable THEN ValReturn(FALSE)
       ELSE LET header == Take(valFile.content, HeaderReadLen)
            IN  ValReturn(HasZipMagic(header))
    /\ UNCHANGED <<valPath, valFile>>

(***************************************************************************)
(* Sanitizer harness: the raw string is drawn from short patterns over a   *)
(* small alphabet, repeated so that both truncation lengths are exceeded.  *)
(***************************************************************************)

MaxPat == 3
RepSheet == 17
RepFile == 51

SanAlphabet == {"a", "_", " ", "/", "["}

SanPatterns == UNION {[1..n -> SanAlphabet] : n \in 0..MaxPat}

SanInputs == {Repeat(p, r) : p \in SanPatterns, r \in {1, RepSheet, RepFile}}

SanInit ==
    /\ sanIn \in SanInputs
    /\ sanFile = <<>>
    /\ sanSheet = <<>>

SanIdle ==
    /\ sanIn = <<>>
    /\ sanFile = <<>>
    /\ sanSheet = <<>>

\* one more application of _sanitize_filename to the previous result
ApplySanitizeFilename ==
    /\ Len(sanFile) < 2
    /\ sanFile' = Append(sanFile,
                         SanitizeFilename(IF sanFile = <<>> THEN sanIn
                                          ELSE sanFile[Len(sanFile)]))
    /\ UNCHANGED <<sanIn, sanSheet>>

\* one more application of _sanitize_sheet_name to the previous result
ApplySanitizeSheetName ==
    /\ Len(sanSheet) < 2
    /\ sanSheet' = Append(sanSheet,
                          SanitizeSheetName(IF sanSheet = <<>> THEN sanIn
                                            ELSE sanSheet[Len(sanSheet)]))
    /\ UNCHANGED <<sanIn, sanFile>>

(***************************************************************************)
(* The download directory                                                  *)
(***************************************************************************)

\* the entries the download directory may hold
Names == {"a", "b", "c"}

\* a path outside the download directory
Outside == "x"

Paths == Names \cup {Outside}

NoName == "-"

NoEntry == [kind |-> "none", mtime |-> 0, data |-> <<>>, ino |-> 0]

\* os.listdir(self.download_dir)
ListDir == {n \in Names : fs[n].kind # "none"}

\* os.stat(path) succeeds
CanStat(p) == fs[p].kind # "none" /\ ~(faultAt = p /\ faultKind = "stat")

\* os.path.exists(path): False when the stat fails
PathExists(p) == CanStat(p)

\* os.path.isfile(path): False when the stat fails
IsFile(p) == CanStat(p) /\ fs[p].kind = "file"

\* os.remove(path) succeeds
CanRemove(p) == fs[p].kind = "file" /\ ~(faultAt = p /\ faultKind = "remove")

FsIdle ==
    /\ fs = [p \in Paths |-> NoEntry]
    /\ clock = 0
    /\ faultAt = NoName
    /\ faultKind = "stat"
    /\ vanishLeft = 0
    /\ vanished = {}
    /\ fs0 = fs

\* the names a running listing or cleanup has yet to visit, or is visiting
Pending ==
    clTodo \cup lsTodo
    \cup (IF clPc \in {"stat", "remove"} THEN {clCur} ELSE {})
    \cup (IF lsPc = "info" THEN {lsCur} ELSE {})

\* another process deletes a file that a running listing or cleanup has
\* enumerated and not finished with (a later deletion cannot affect it)
Vanish ==
    /\ vanishLeft > 0
    /\ \E n \in Pending :
          /\ fs[n].kind = "file"
          /\ fs' = [fs EXCEPT ![n] = NoEntry]
          /\ vanished' = vanished \cup {n}
    /\ vanishLeft' = vanishLeft - 1
    /\ UNCHANGED <<clock, faultAt, faultKind, fs0>>

(***************************************************************************)
(* FileManager.cleanup_old_files                                           *)
(***************************************************************************)

ClIdle ==
    /\ clMaxAge = 0
    /\ clPc = "idle"
    /\ clCutoff = 0
    /\ clTodo = {}
    /\ clCur = NoName
    /\ clDeleted = 0
    /\ clRemoved = {}

\* A plausible slip: a file exactly at the cutoff is deleted as well.
IsOldInclusive(mtime, cutoff) == mtime <= cutoff

\* if mtime < cutoff
IsOld(mtime, cutoff) == mtime < cutoff

\* cutoff = datetime.now() - timedelta(days=max_age_days); deleted = 0;
\* os.listdir(self.download_dir) is evaluated once, before the loop
ClStart ==
    /\ clPc = "start"
    /\ clCutoff' = clock - clMaxAge
    /\ clDeleted' = 0
    /\ clTodo' = ListDir
    /\ clPc' = "loop"
    /\ UNCHANGED <<clMaxAge, clCur, clRemoved, fsVars>>

\* for filename in ...: if os.path.isfile(filepath);  after the loop: return deleted
ClNextFile ==
    /\ clPc = "loop"
    /\ IF clTodo = {}
       THEN clPc' = "done" /\ UNCHANGED <<clTodo, clCur>>
       ELSE \E n \in clTodo :
               /\ clTodo' = clTodo \ {n}
               /\ clCur' = n
               /\ clPc' = IF IsFile(n) THEN "stat" ELSE "loop"
    /\ UNCHANGED <<clMaxAge, clCutoff, clDeleted, clRemoved, fsVars>>

\* mtime = datetime.fromtimestamp(os.stat(filepath).st_mtime); if mtime < cutoff
\* (os.stat is outside any try: its failure leaves cleanup_old_files)
ClStat ==
    /\ clPc = "stat"
    /\ clPc' = IF ~CanStat(clCur) THEN "raised"
               ELSE IF IsOld(fs[clCur].mtime, clCutoff) THEN "remove"
               ELSE "loop"
    /\ UNCHANGED <<clMaxAge, clCutoff, clTodo, clCur, clDeleted, clRemoved, fsVars>>

\* os.remove(filepath); deleted += 1
\* (os.remove is outside any try: its failure leaves cleanup_old_files)
ClRemove ==
    /\ clPc = "remove"
    /\ IF CanRemove(clCur)
       THEN /\ fs' = [fs EXCEPT ![clCur] = NoEntry]
            /\ clDeleted' = clDeleted + 1
            /\ clRemoved' = clRemoved \cup {clCur}
            /\ clPc' = "loop"
       ELSE /\ clPc' = "raised"
            /\ UNCHANGED <<fs, clDeleted, clRemoved>>
    /\ UNCHANGED <<clMaxAge, clCutoff, clTodo, clCur>>
    /\ UNCHANGED <<clock, faultAt, faultKind, vanishLeft, vanished, fs0>>

(***************************************************************************)
(* FileManager.list_downloads and get_file_info                            *)
(***************************************************************************)

LsIdle ==
    /\ lsPc = "idle"
    /\ lsTodo = {}
    /\ lsCur = NoName
    /\ lsFiles = <<>>
    /\ lsResult = <<>>

\* get_file_info(filepath): the dict it returns (the fields the listing uses)
FileInfo(p) == [filename |-> p, modified_at |-> fs[p].mtime]

\* insert x into a sequence sorted by modified_at descending, after its equals
RECURSIVE InsertDesc(_, _)
InsertDesc(sorted, x) ==
    IF sorted = <<>> THEN <<x>>
    ELSE IF Head(sorted).modified_at >= x.modified_at
         THEN <<Head(sorted)>> \o InsertDesc(Tail(sorted), x)
         ELSE <<x>> \o sorted

\* sorted(files, key=lambda x: x["modified_at"], reverse=True): a stable sort
RECURSIVE SortedDesc(_)
SortedDesc(files) ==
    IF files = <<>> THEN <<>>
    ELSE InsertDesc(SortedDesc(SubSeq(files, 1, Len(files) - 1)), files[Len(files)])

\* files = []; os.listdir(self.download_dir) is evaluated once, before the loop
LsStart ==
    /\ lsPc = "start"
    /\ lsFiles' = <<>>
    /\ lsTodo' = ListDir
    /\ lsPc' = "loop"
    /\ UNCHANGED <<lsCur, lsResult, fsVars>>

\* for filename in ...: if os.path.isfile(filepath);  after the loop: return sorted(...)
LsNextFile ==
    /\ lsPc = "loop"
    /\ IF lsTodo = {}
       THEN /\ lsPc' = "done"
            /\ lsResult' = SortedDesc(lsFiles)
            /\ UNCHANGED <<lsTodo, lsCur>>
       ELSE /\ \E n \in lsTodo :
                 /\ lsTodo' = lsTodo \ {n}
                 /\ lsCur' = n
                 /\ lsPc' = IF IsFile(n) THEN "info" ELSE "loop"
            /\ UNCHANGED lsResult
    /\ UNCHANGED <<lsFiles, fsVars>>

\* try: files.append(self.get_file_info(filepath)) except Exception: logger.warning(...)
\* get_file_info raises FileNotFoundError when the path does not exist; so does os.stat
LsInfo ==
    /\ lsPc = "info"
    /\ lsFiles' = IF PathExists(lsCur) THEN Append(lsFiles, FileInfo(lsCur)) ELSE lsFiles
    /\ lsPc' = "loop"
    /\ UNCHANGED <<lsTodo, lsCur, lsResult, fsVars>>

(***************************************************************************)
(* Directory harness: a directory of up to three entries, one operation    *)
(***************************************************************************)

MaxClock == 2
MaxAge == 1
MaxVanish == 1

DirEntries ==
    {NoEntry, [kind |-> "dir", mtime |-> 0, data |-> <<>>, ino |-> 0]}
    \cup {[kind |-> "file", mtime |-> t, data |-> <<>>, ino |-> 0] : t \in 0..MaxClock}

DirInit ==
    /\ \E d \in [Names -> DirEntries] :
          fs = [p \in Paths |-> IF p \in Names THEN d[p] ELSE NoEntry]
    /\ fs0 = fs
    /\ clock = MaxClock
    /\ faultAt \in Names \cup {NoName}
    /\ faultKind \in IF faultAt = NoName THEN {"stat"} ELSE {"stat", "remove"}
    /\ vanishLeft = MaxVanish
    /\ vanished = {}
    /\ \E op \in {"list", "cleanup"} :
          /\ clPc = IF op = "cleanup" THEN "start" ELSE "idle"
          /\ lsPc = IF op = "list" THEN "start" ELSE "idle"
    /\ clMaxAge \in IF clPc = "start" THEN 0..MaxAge ELSE {0}
    /\ clCutoff = 0
    /\ clTodo = {}
    /\ clCur = NoName
    /\ clDeleted = 0
    /\ clRemoved = {}
    /\ lsTodo = {}
    /\ lsCur = NoName
    /\ lsFiles = <<>>
    /\ lsResult = <<>>

(***************************************************************************)
(* Excel consolidation: FileManager.consolidate_excel_files                *)
(*                                                                         *)
(* A workbook is the sequence of its worksheets; an output worksheet is    *)
(* [title, src]: src is 0 for the sheet Workbook() creates and the source  *)
(* document's id for a copied sheet.                                       *)
(***************************************************************************)

Jobs == {1, 2}

MaxCandidateBase == 15

\* the handle of output_wb among a call's open workbooks (a source's is its file_idx)
OutHandle == 0

\* the title of the sheet that Workbook() creates
DefaultTitle == <<"S", "h", "e", "e", "t">>

\* os.path.basename(path)
Basename(path) ==
    LET slashes == {i \in 1..Len(path) : path[i] = "/"}
    IN  IF slashes = {} THEN path
        ELSE LET last == CHOOSE i \in slashes : \A k \in slashes : k <= i
             IN  SubSeq(path, last + 1, Len(path))

\* os.path.splitext(name)[0]: the extension starts at the last dot, unless
\* only dots precede it
SplitextRoot(name) ==
    LET dots == {i \in 1..Len(name) : name[i] = "."}
    IN  IF dots = {} THEN name
        ELSE LET last == CHOOSE i \in dots : \A k \in dots : k <= i
             IN  IF \E k \in 1..(last - 1) : name[k] # "."
                 THEN SubSeq(name, 1, last - 1)
                 ELSE name

\* str(n) for n >= 0
RECURSIVE Decimal(_)
Decimal(n) ==
    LET d == <<"0", "1", "2", "3", "4", "5", "6", "7", "8", "9">>[(n % 10) + 1]
    IN  IF n < 10 THEN <<d>> ELSE Decimal(n \div 10) \o <<d>>

\* the source documents a job may name: the file's path, whether it exists,
\* whether load_workbook can parse it, and the titles of its worksheets
Sources ==
    <<[path |-> <<"/", "i", "n", "/", "r", "e", "p", "o", "r", "t", "_", "a", ".", "x", "l", "s", "x">>, exists |-> TRUE, parses |-> TRUE,
       sheets |-> <<<<"D", "a", "t", "a">>>>],
      [path |-> <<"/", "i", "n", "/">> \o Repeat(<<"b">>, 18) \o <<".", "v", "2", ".", "x", "l", "s", "x">>, exists |-> TRUE, parses |-> TRUE,
       sheets |-> <<Repeat(<<"t">>, 16) \o <<"x">>,
                   Repeat(<<"t">>, 16) \o <<"y">>>>],
      [path |-> <<"/", "i", "n", "/", "c", "h", "a", "r", "t", "s", ".", "x", "l", "s", "x">>, exists |-> TRUE, parses |-> TRUE,
       sheets |-> <<>>],
      [path |-> <<"/", "i", "n", "/", "b", "r", "o", "k", "e", "n", ".", "x", "l", "s", "x">>, exists |-> TRUE, parses |-> FALSE,
       sheets |-> <<>>],
      [path |-> <<"/", "i", "n", "/", "m", "i", "s", "s", "i", "n", "g", ".", "x", "l", "s", "x">>, exists |-> FALSE, parses |-> FALSE,
       sheets |-> <<>>]>>

SourceIds == 1..Len(Sources)

\* the custom sheet names a job may pass
Prefixes == {<<"S", "h", "e", "e", "t">>, <<"Q", "1", "/", "2", "0", "2", "5", ":">> \o Repeat(<<"p">>, 25)}

\* the candidate name of a source sheet, before sanitizing (lines 272-280)
CandidateName(prefixes, fileIdx, src, title) ==
    IF prefixes # <<>> /\ fileIdx <= Len(prefixes)
    THEN IF Len(src.sheets) > 1
         THEN prefixes[fileIdx] \o <<"_">> \o title
         ELSE prefixes[fileIdx]
    ELSE LET base_name == SplitextRoot(Basename(src.path))
             short_base == IF Len(base_name) > MaxCandidateBase
                           THEN Take(base_name, MaxCandidateBase) ELSE base_name
         IN  short_base \o <<"_">> \o title

\* existing_names = [sheet.title for sheet in workbook.worksheets]
Titles(wb) == {wb[i].title : i \in 1..Len(wb)}

\* A plausible slip: the suffix is appended without shortening the base.
NumberedNameUncut(name, counter) == name \o <<"_">> \o Decimal(counter)

\* suffix = f"_{counter}"; new_name = f"{name[:31 - len(suffix)]}{suffix}"
NumberedName(name, counter) ==
    LET suffix == <<"_">> \o Decimal(counter)
    IN  Take(name, MaxSheetNameLen - Len(suffix)) \o suffix

\* the while True loop of _make_unique_sheet_name, from counter on
RECURSIVE UniqueFrom(_, _, _)
UniqueFrom(existing, name, counter) ==
    IF NumberedName(name, counter) \notin existing
    THEN NumberedName(name, counter)
    ELSE UniqueFrom(existing, name, counter + 1)

\* FileManager._make_unique_sheet_name
MakeUniqueSheetName(wb, name) ==
    IF name \notin Titles(wb) THEN name ELSE UniqueFrom(Titles(wb), name, 1)

\* the archive members output_wb.save writes, in order: the workbook part that
\* lists the sheets, then one part per worksheet
Archive(j, wb) ==
    <<[job |-> j, part |-> "workbook", titles |-> [i \in 1..Len(wb) |-> wb[i].title]]>>
    \o [i \in 1..Len(wb) |-> [job |-> j, part |-> "sheet", titles |-> <<wb[i].title>>]]

\* a write of chunk c at position k of a file's data (positions never written
\* read as holes)
WriteAt(data, k, c) ==
    [i \in 1..(IF Len(data) > k THEN Len(data) ELSE k) |->
        IF i = k THEN c
        ELSE IF i <= Len(data) THEN data[i]
        ELSE [job |-> 0, part |-> "hole", titles |-> <<>>]]

\* what a file that was in the download directory before the job holds
OldData == <<[job |-> 0, part |-> "old", titles |-> <<>>]>>

ConIdle ==
    /\ jPaths = [j \in Jobs |-> <<>>]
    /\ jPrefixes = [j \in Jobs |-> <<>>]
    /\ jOut = [j \in Jobs |-> NoName]
    /\ jFault = [j \in Jobs |-> "none"]
    /\ jPc = [j \in Jobs |-> "idle"]
    /\ jIdx = [j \in Jobs |-> 0]
    /\ jPos = [j \in Jobs |-> 0]
    /\ jWb = [j \in Jobs |-> <<>>]
    /\ jCount = [j \in Jobs |-> 0]
    /\ jHandles = [j \in Jobs |-> {}]
    /\ jErr = [j \in Jobs |-> "none"]
    /\ jWpos = [j \in Jobs |-> 0]
    /\ jIno = [j \in Jobs |-> 0]

\* A plausible slip: the handler logs the error and goes on to the next file.
ExceptPcSwallow == "close"

\* except Exception as e: logger.error(...); raise
ExceptPc == "failed"

\* lines 252-257: the two precondition checks
ConCheck(j) ==
    /\ jPc[j] = "start"
    /\ IF jPaths[j] = <<>>
       THEN /\ jErr' = [jErr EXCEPT ![j] = "empty"]
            /\ jPc' = [jPc EXCEPT ![j] = "failed"]
       ELSE IF \E i \in 1..Len(jPaths[j]) : ~Sources[jPaths[j][i]].exists
       THEN /\ jErr' = [jErr EXCEPT ![j] = "missing"]
            /\ jPc' = [jPc EXCEPT ![j] = "failed"]
       ELSE /\ jPc' = [jPc EXCEPT ![j] = "new"]
            /\ UNCHANGED jErr
    /\ UNCHANGED <<jPaths, jPrefixes, jOut, jFault, jIdx, jPos, jWb, jCount,
                   jHandles, jWpos, jIno>>
    /\ UNCHANGED fsVars

\* output_wb = Workbook(); default_sheet = output_wb.active; sheet_index = 0
ConNewWorkbook(j) ==
    /\ jPc[j] = "new"
    /\ jWb' = [jWb EXCEPT ![j] = <<[title |-> DefaultTitle, src |-> 0]>>]
    /\ jHandles' = [jHandles EXCEPT ![j] = @ \cup {OutHandle}]
    /\ jCount' = [jCount EXCEPT ![j] = 0]
    /\ jIdx' = [jIdx EXCEPT ![j] = 1]
    /\ jPc' = [jPc EXCEPT ![j] = "load"]
    /\ UNCHANGED <<jPaths, jPrefixes, jOut, jFault, jPos, jErr, jWpos, jIno>>
    /\ UNCHANGED fsVars

\* for file_idx, file_path in enumerate(file_paths):
\*     source_wb = load_workbook(file_path, data_only=False)
ConLoad(j) ==
    /\ jPc[j] = "load"
    /\ IF jIdx[j] > Len(jPaths[j])
       THEN /\ jPc' = [jPc EXCEPT ![j] = "finish"]
            /\ UNCHANGED <<jHandles, jPos, jErr>>
       ELSE IF ~Sources[jPaths[j][jIdx[j]]].parses
       THEN /\ jErr' = [jErr EXCEPT ![j] = "corrupt"]
            /\ jPc' = [jPc EXCEPT ![j] = ExceptPc]
            /\ UNCHANGED <<jHandles, jPos>>
       ELSE /\ jHandles' = [jHandles EXCEPT ![j] = @ \cup {jIdx[j]}]
            /\ jPos' = [jPos EXCEPT ![j] = 1]
            /\ jPc' = [jPc EXCEPT ![j] = "sheet"]
            /\ UNCHANGED jErr
    /\ UNCHANGED <<jPaths, jPrefixes, jOut, jFault, jIdx, jWb, jCount, jWpos, jIno>>
    /\ UNCHANGED fsVars

\* for source_sheet in source_wb.worksheets: lines 272-291.
\* _copy_sheet_data may raise after the sheet was created.
ConSheet(j) ==
    /\ jPc[j] = "sheet"
    /\ LET src == Sources[jPaths[j][jIdx[j]]]
       IN  IF jPos[j] > Len(src.sheets)
           THEN /\ jPc' = [jPc EXCEPT ![j] = "close"]
                /\ UNCHANGED <<jWb, jCount, jPos, jErr>>
           ELSE LET candidate == CandidateName(jPrefixes[j], jIdx[j], src,
                                               src.sheets[jPos[j]])
                    new_sheet_name ==
                        MakeUniqueSheetName(jWb[j], SanitizeSheetName(candidate))
                IN  /\ jWb' = [jWb EXCEPT ![j] =
                                 Append(@, [title |-> new_sheet_name,
                                            src |-> jPaths[j][jIdx[j]]])]
                    /\ \E copyFails \in (IF jFault[j] = "copy" THEN BOOLEAN
                                        ELSE {FALSE}) :
                          IF copyFails
                          THEN /\ jErr' = [jErr EXCEPT ![j] = "copy"]
                               /\ jPc' = [jPc EXCEPT ![j] = ExceptPc]
                               /\ UNCHANGED <<jCount, jPos>>
                          ELSE /\ jCount' = [jCount EXCEPT ![j] = @ + 1]
                               /\ jPos' = [jPos EXCEPT ![j] = @ + 1]
                               /\ UNCHANGED <<jPc, jErr>>
    /\ UNCHANGED <<jPaths, jPrefixes, jOut, jFault, jIdx, jHandles, jWpos, jIno>>
    /\ UNCHANGED fsVars

\* source_wb.close(), then the next file
ConCloseSource(j) ==
    /\ jPc[j] = "close"
    /\ jHandles' = [jHandles EXCEPT ![j] = @ \ {jIdx[j]}]
    /\ jIdx' = [jIdx EXCEPT ![j] = @ + 1]
    /\ jPc' = [jPc EXCEPT ![j] = "load"]
    /\ UNCHANGED <<jPaths, jPrefixes, jOut, jFault, jPos, jWb, jCount, jErr, jWpos,
                   jIno>>
    /\ UNCHANGED fsVars

\* if sheet_index > 0 and default_sheet.title == "Sheet": output_wb.remove(default_sheet)
ConFinish(j) ==
    /\ jPc[j] = "finish"
    /\ jWb' = [jWb EXCEPT ![j] =
                 IF jCount[j] > 0 /\ @[1].title = DefaultTitle THEN Tail(@) ELSE @]
    /\ jPc' = [jPc EXCEPT ![j] = "save"]
    /\ UNCHANGED <<jPaths, jPrefixes, jOut, jFault, jIdx, jPos, jCount, jHandles, jErr,
                   jWpos, jIno>>
    /\ UNCHANGED fsVars

\* output_wb.save(output_path): the file is opened for writing, which creates
\* it or truncates the file that is there
ConSaveOpen(j) ==
    /\ jPc[j] = "save"
    /\ \E openFails \in (IF jFault[j] = "save" THEN BOOLEAN ELSE {FALSE}) :
          IF openFails \/ fs[jOut[j]].kind = "dir"
          THEN /\ jErr' = [jErr EXCEPT ![j] = "save"]
               /\ jPc' = [jPc EXCEPT ![j] = "failed"]
               /\ UNCHANGED <<fs, jWpos, jIno>>
          ELSE /\ fs' = [fs EXCEPT ![jOut[j]] =
                           [kind |-> "file", mtime |-> clock, data |-> <<>>,
                            ino |-> IF @.kind = "file" THEN @.ino ELSE j]]
               /\ jIno' = [jIno EXCEPT ![j] = fs'[jOut[j]].ino]
               /\ jWpos' = [jWpos EXCEPT ![j] = 1]
               /\ jPc' = [jPc EXCEPT ![j] = "write"]
               /\ UNCHANGED jErr
    /\ UNCHANGED <<jPaths, jPrefixes, jOut, jFault, jIdx, jPos, jWb, jCount, jHandles>>
    /\ UNCHANGED <<clock, faultAt, faultKind, vanishLeft, vanished, fs0>>

\* output_wb.save(output_path), continued: the archive members are written one
\* after the other at the writer's own file position; a write may fail (disk
\* full).  A write to a file that was unlinked meanwhile is not visible at the path.
ConSaveWrite(j) ==
    /\ jPc[j] = "write"
    /\ IF jWpos[j] > Len(Archive(j, jWb[j]))
       THEN /\ jPc' = [jPc EXCEPT ![j] = "closeout"]
            /\ UNCHANGED <<fs, jWpos, jErr>>
       ELSE \E writeFails \in (IF jFault[j] = "save" THEN BOOLEAN ELSE {FALSE}) :
               IF writeFails
               THEN /\ jErr' = [jErr EXCEPT ![j] = "save"]
                    /\ jPc' = [jPc EXCEPT ![j] = "failed"]
                    /\ UNCHANGED <<fs, jWpos>>
               ELSE /\ fs' = IF fs[jOut[j]].kind = "file" /\ fs[jOut[j]].ino = jIno[j]
                             THEN [fs EXCEPT ![jOut[j]].data =
                                      WriteAt(@, jWpos[j], Archive(j, jWb[j])[jWpos[j]]),
                                             ![jOut[j]].mtime = clock]
                             ELSE fs
                    /\ jWpos' = [jWpos EXCEPT ![j] = @ + 1]
                    /\ UNCHANGED <<jPc, jErr>>
    /\ UNCHANGED <<jPaths, jPrefixes, jOut, jFault, jIdx, jPos, jWb, jCount, jHandles,
                   jIno>>
    /\ UNCHANGED <<clock, faultAt, faultKind, vanishLeft, vanished, fs0>>

\* output_wb.close(); return output_path
ConCloseOutput(j) ==
    /\ jPc[j] = "closeout"
    /\ jHandles' = [jHandles EXCEPT ![j] = @ \ {OutHandle}]
    /\ jPc' = [jPc EXCEPT ![j] = "done"]
    /\ UNCHANGED <<jPaths, jPrefixes, jOut, jFault, jIdx, jPos, jWb, jCount, jErr,
                   jWpos, jIno>>
    /\ UNCHANGED fsVars

(***************************************************************************)
(* Consolidation harness: one job over up to MaxFiles source documents     *)
(***************************************************************************)

MaxFiles == 2

SeqsUpTo(S, n) == UNION {[1..k -> S] : k \in 0..n}

ConInit ==
    /\ \E paths \in SeqsUpTo(SourceIds, MaxFiles) :
       \E prefixes \in SeqsUpTo(Prefixes, Len(paths)) :
       \E fault \in {"none", "copy", "save"} :
          /\ jPaths = [j \in Jobs |-> IF j = 1 THEN paths ELSE <<>>]
          /\ jPrefixes = [j \in Jobs |-> IF j = 1 THEN prefixes ELSE <<>>]
          /\ jFault = [j \in Jobs |-> IF j = 1 THEN fault ELSE "none"]
    /\ jOut = [j \in Jobs |-> IF j = 1 THEN "a" ELSE NoName]
    /\ jPc = [j \in Jobs |-> IF j = 1 THEN "start" ELSE "idle"]
    /\ jIdx = [j \in Jobs |-> 0]
    /\ jPos = [j \in Jobs |-> 0]
    /\ jWb = [j \in Jobs |-> <<>>]
    /\ jCount = [j \in Jobs |-> 0]
    /\ jHandles = [j \in Jobs |-> {}]
    /\ jErr = [j \in Jobs |-> "none"]
    /\ jWpos = [j \in Jobs |-> 0]
    /\ jIno = [j \in Jobs |-> 0]
    /\ \E before \in {NoEntry, [kind |-> "file", mtime |-> 0, data |-> OldData, ino |-> 0]} :
          fs = [p \in Paths |-> IF p = "a" THEN before ELSE NoEntry]
    /\ fs0 = fs
    /\ clock = 1
    /\ faultAt = NoName
    /\ faultKind = "stat"
    /\ vanishLeft = 0
    /\ vanished = {}

(***************************************************************************)
(* FileManager.rename_download                                             *)
(***************************************************************************)

RnIdle ==
    /\ rnOrig = NoName
    /\ rnNew = NoName
    /\ rnPc = "idle"

\* if not os.path.exists(original_path): raise FileNotFoundError
RnCheck ==
    /\ rnPc = "start"
    /\ rnPc' = IF PathExists(rnOrig) THEN "exists" ELSE "raised"
    /\ UNCHANGED <<rnOrig, rnNew, fsVars>>

\* new_path = os.path.join(self.download_dir, new_filename)
\* if os.path.exists(new_path): os.remove(new_path)
RnRemoveExisting ==
    /\ rnPc = "exists"
    /\ IF ~PathExists(rnNew)
       THEN rnPc' = "move" /\ UNCHANGED fs
       ELSE IF CanRemove(rnNew)
       THEN rnPc' = "move" /\ fs' = [fs EXCEPT ![rnNew] = NoEntry]
       ELSE rnPc' = "raised" /\ UNCHANGED fs
    /\ UNCHANGED <<rnOrig, rnNew>>
    /\ UNCHANGED <<clock, faultAt, faultKind, vanishLeft, vanished, fs0>>

\* shutil.move(original_path, new_path): the entry keeps its data and its
\* modification time; it fails when the original is no longer there
RnMove ==
    /\ rnPc = "move"
    /\ IF fs[rnOrig].kind = "none"
       THEN rnPc' = "raised" /\ UNCHANGED fs
       ELSE /\ rnPc' = "moved"
            /\ fs' = IF rnOrig = rnNew THEN fs
                     ELSE [fs EXCEPT ![rnNew] = fs[rnOrig], ![rnOrig] = NoEntry]
    /\ UNCHANGED <<rnOrig, rnNew>>
    /\ UNCHANGED <<clock, faultAt, faultKind, vanishLeft, vanished, fs0>>

\* logger.info(...); return new_path
RnReturn ==
    /\ rnPc = "moved"
    /\ rnPc' = "done"
    /\ UNCHANGED <<rnOrig, rnNew, fsVars>>

(***************************************************************************)
(* Concurrent callers: two consolidation jobs with the same output         *)
(* filename, a cleanup and a rename, on one download directory, while the  *)
(* clock advances                                                          *)
(***************************************************************************)

\* a day passes
Tick ==
    /\ clock < MaxClock
    /\ clock' = clock + 1
    /\ UNCHANGED <<fs, faultAt, faultKind, vanishLeft, vanished, fs0>>

ConcInit ==
    /\ jPaths = [j \in Jobs |-> <<1>>]
    /\ jPrefixes = [j \in Jobs |-> <<>>]
    /\ jFault = [j \in Jobs |-> "none"]
    /\ jOut = [j \in Jobs |-> "a"]
    /\ jPc = [j \in Jobs |-> "start"]
    /\ jIdx = [j \in Jobs |-> 0]
    /\ jPos = [j \in Jobs |-> 0]
    /\ jWb = [j \in Jobs |-> <<>>]
    /\ jCount = [j \in Jobs |-> 0]
    /\ jHandles = [j \in Jobs |-> {}]
    /\ jErr = [j \in Jobs |-> "none"]
    /\ jWpos = [j \in Jobs |-> 0]
    /\ jIno = [j \in Jobs |-> 0]
    /\ fs = [p \in Paths |->
               IF p = Outside
               THEN [kind |-> "file", mtime |-> 0, data |-> OldData, ino |-> 0]
               ELSE NoEntry]
    /\ fs0 = fs
    /\ clock = 0
    /\ faultAt = NoName
    /\ faultKind = "stat"
    /\ vanishLeft = 0
    /\ vanished = {}
    /\ rnOrig = Outside
    /\ rnNew = "b"
    /\ rnPc = "start"
    /\ clMaxAge \in 0..MaxAge
    /\ clPc = "start"
    /\ clCutoff = 0
    /\ clTodo = {}
    /\ clCur = NoName
    /\ clDeleted = 0
    /\ clRemoved = {}

(***************************************************************************)
(* FileManager._make_unique_sheet_name, one pass of its loop per step      *)
(***************************************************************************)

NoTitle == <<>>

UqIdle ==
    /\ uqWb = <<>>
    /\ uqName = NoTitle
    /\ uqPc = "idle"
    /\ uqExisting = {}
    /\ uqCounter = 0
    /\ uqResult = NoTitle

\* A plausible slip: the counter is not advanced.
NextCounterStuck(counter) == counter

\* counter += 1
NextCounter(counter) == counter + 1

\* existing_names = [...]; if name not in existing_names: return name
\* counter = 1
UqStart ==
    /\ uqPc = "start"
    /\ uqExisting' = Titles(uqWb)
    /\ IF uqName \notin Titles(uqWb)
       THEN uqPc' = "returned" /\ uqResult' = uqName /\ UNCHANGED uqCounter
       ELSE uqPc' = "loop" /\ uqCounter' = 1 /\ UNCHANGED uqResult
    /\ UNCHANGED <<uqWb, uqName>>
    /\ UNCHANGED fsVars

\* workbooks with a run of numbered names name_1 .. name_k, k up to MaxChain
MaxChain == 10

\* the counter values the model follows; no workbook below makes the search
\* go this far
MaxAttempts == MaxChain + 3

\* one pass of while True: build new_name, return it when it is free,
\* otherwise counter += 1
UqTry ==
    /\ uqPc = "loop"
    /\ uqCounter <= MaxAttempts
    /\ LET new_name == NumberedName(uqName, uqCounter)
       IN  IF new_name \notin uqExisting
           THEN uqPc' = "returned" /\ uqResult' = new_name /\ UNCHANGED uqCounter
           ELSE uqCounter' = NextCounter(uqCounter) /\ UNCHANGED <<uqPc, uqResult>>
    /\ UNCHANGED <<uqWb, uqName, uqExisting>>
    /\ UNCHANGED fsVars

\* candidate names as _sanitize_sheet_name returns them: a short one, one of
\* full length, and one of full length that already ends in _1
UqNames ==
    { <<"S">>,
      Repeat(<<"n">>, MaxSheetNameLen),
      Repeat(<<"n">>, MaxSheetNameLen - 2) \o <<"_", "1">> }

\* an output workbook: the placeholder or not, the candidate name taken or
\* not, and the k first numbered names taken
UqWorkbook(name, placeholder, taken, k) ==
    (IF placeholder THEN <<[title |-> DefaultTitle, src |-> 0]>> ELSE <<>>)
    \o (IF taken THEN <<[title |-> name, src |-> 1]>> ELSE <<>>)
    \o SelectSeq([i \in 1..k |-> [title |-> NumberedName(name, i), src |-> 1]],
                 LAMBDA s : s.title # name)

UqInit ==
    /\ \E name \in UqNames, placeholder \in BOOLEAN, taken \in BOOLEAN, k \in 0..MaxChain :
          /\ uqName = name
          /\ uqWb = UqWorkbook(name, placeholder, taken, k)
    /\ uqPc = "start"
    /\ uqExisting = {}
    /\ uqCounter = 0
    /\ uqResult = NoTitle

(***************************************************************************)
(* rename_download called alone, on every arrangement of files             *)
(***************************************************************************)

\* the content of the file first found at path p
RnData(p) == <<[job |-> 0, part |-> p, titles |-> <<>>]>>

RnInit ==
    /\ rnOrig \in Paths
    /\ rnNew \in Names
    /\ rnPc = "start"
    /\ \E present \in SUBSET Paths :
          fs = [p \in Paths |->
                  IF p \in present
                  THEN [kind |-> "file", mtime |-> 0, data |-> RnData(p), ino |-> 0]
                  ELSE NoEntry]
    /\ fs0 = fs
    /\ clock = 1
    /\ faultAt = NoName
    /\ faultKind = "stat"
    /\ vanishLeft = 0
    /\ vanished = {}

(***************************************************************************)
(* Specifications: one per part of the file manager.  Each action leaves   *)
(* the variables of the other parts unchanged.                             *)
(***************************************************************************)

InitSanitize == SanInit /\ ValIdle /\ FsIdle /\ ClIdle /\ LsIdle /\ ConIdle /\ RnIdle /\ UqIdle

NextSanitize ==
    \/ ApplySanitizeFilename /\ UNCHANGED fsVars
         /\ UNCHANGED <<valVars, clVars, lsVars, conVars, rnVars, uqVars>>
    \/ ApplySanitizeSheetName /\ UNCHANGED fsVars
         /\ UNCHANGED <<valVars, clVars, lsVars, conVars, rnVars, uqVars>>

SpecSanitize == InitSanitize /\ [][NextSanitize]_vars

InitValidate == ValInit /\ SanIdle /\ FsIdle /\ ClIdle /\ LsIdle /\ ConIdle /\ RnIdle /\ UqIdle

NextValidate ==
    \/ ValCheckExists /\ UNCHANGED fsVars
         /\ UNCHANGED <<sanVars, clVars, lsVars, conVars, rnVars, uqVars>>
    \/ ValCheckSize /\ UNCHANGED fsVars
         /\ UNCHANGED <<sanVars, clVars, lsVars, conVars, rnVars, uqVars>>
    \/ ValCheckExtension /\ UNCHANGED fsVars
         /\ UNCHANGED <<sanVars, clVars, lsVars, conVars, rnVars, uqVars>>
    \/ ValCheckMagic /\ UNCHANGED fsVars
         /\ UNCHANGED <<sanVars, clVars, lsVars, conVars, rnVars, uqVars>>

SpecValidate == InitValidate /\ [][NextValidate]_vars

InitDirectory == DirInit /\ SanIdle /\ ValIdle /\ ConIdle /\ RnIdle /\ UqIdle

NextDirectory ==
    \/ ClStart
         /\ UNCHANGED <<sanVars, valVars, lsVars, conVars, rnVars, uqVars>>
    \/ ClNextFile
         /\ UNCHANGED <<sanVars, valVars, lsVars, conVars, rnVars, uqVars>>
    \/ ClStat
         /\ UNCHANGED <<sanVars, valVars, lsVars, conVars, rnVars, uqVars>>
    \/ ClRemove
         /\ UNCHANGED <<sanVars, valVars, lsVars, conVars, rnVars, uqVars>>
    \/ LsStart
         /\ UNCHANGED <<sanVars, valVars, clVars, conVars, rnVars, uqVars>>
    \/ LsNextFile
         /\ UNCHANGED <<sanVars, valVars, clVars, conVars, rnVars, uqVars>>
    \/ LsInfo
         /\ UNCHANGED <<sanVars, valVars, clVars, conVars, rnVars, uqVars>>
    \/ Vanish
         /\ UNCHANGED <<sanVars, valVars, clVars, lsVars, conVars, rnVars, uqVars>>

SpecDirectory == InitDirectory /\ [][NextDirectory]_vars

InitConsolidate == ConInit /\ SanIdle /\ ValIdle /\ ClIdle /\ LsIdle /\ RnIdle /\ UqIdle

NextConsolidate ==
    \/ \E j \in Jobs : ConCheck(j)
         /\ UNCHANGED <<sanVars, valVars, clVars, lsVars, rnVars, uqVars>>
    \/ \E j \in Jobs : ConNewWorkbook(j)
         /\ UNCHANGED <<sanVars, valVars, clVars, lsVars, rnVars, uqVars>>
    \/ \E j \in Jobs : ConLoad(j)
         /\ UNCHANGED <<sanVars, valVars, clVars, lsVars, rnVars, uqVars>>
    \/ \E j \in Jobs : ConSheet(j)
         /\ UNCHANGED <<sanVars, valVars, clVars, lsVars, rnVars, uqVars>>
    \/ \E j \in Jobs : ConCloseSource(j)
         /\ UNCHANGED <<sanVars, valVars, clVars, lsVars, rnVars, uqVars>>
    \/ \E j \in Jobs : ConFinish(j)
         /\ UNCHANGED <<sanVars, valVars, clVars, lsVars, rnVars, uqVars>>
    \/ \E j \in Jobs : ConSaveOpen(j)
         /\ UNCHANGED <<sanVars, valVars, clVars, lsVars, rnVars, uqVars>>
    \/ \E j \in Jobs : ConSaveWrite(j)
         /\ UNCHANGED <<sanVars, valVars, clVars, lsVars, rnVars, uqVars>>
    \/ \E j \in Jobs : ConCloseOutput(j)
         /\ UNCHANGED <<sanVars, valVars, clVars, lsVars, rnVars, uqVars>>

SpecConsolidate == InitConsolidate /\ [][NextConsolidate]_vars

InitConcurrent == ConcInit /\ SanIdle /\ ValIdle /\ LsIdle /\ UqIdle

NextConcurrent ==
    \/ \E j \in Jobs : ConCheck(j)
         /\ UNCHANGED <<sanVars, valVars, clVars, lsVars, rnVars, uqVars>>
    \/ \E j \in Jobs : ConNewWorkbook(j)
         /\ UNCHANGED <<sanVars, valVars, clVars, lsVars, rnVars, uqVars>>
    \/ \E j \in Jobs : ConLoad(j)
         /\ UNCHANGED <<sanVars, valVars, clVars, lsVars, rnVars, uqVars>>
    \/ \E j \in Jobs : ConSheet(j)
         /\ UNCHANGED <<sanVars, valVars, clVars, lsVars, rnVars, uqVars>>
    \/ \E j \in Jobs : ConCloseSource(j)
         /\ UNCHANGED <<sanVars, valVars, clVars, lsVars, rnVars, uqVars>>
    \/ \E j \in Jobs : ConFinish(j)
         /\ UNCHANGED <<sanVars, valVars, clVars, lsVars, rnVars, uqVars>>
    \/ \E j \in Jobs : ConSaveOpen(j)
         /\ UNCHANGED <<sanVars, valVars, clVars, lsVars, rnVars, uqVars>>
    \/ \E j \in Jobs : ConSaveWrite(j)
         /\ UNCHANGED <<sanVars, valVars, clVars, lsVars, rnVars, uqVars>>
    \/ \E j \in Jobs : ConCloseOutput(j)
         /\ UNCHANGED <<sanVars, valVars, clVars, lsVars, rnVars, uqVars>>
    \/ ClStart
         /\ UNCHANGED <<sanVars, valVars, lsVars, conVars, rnVars, uqVars>>
    \/ ClNextFile
         /\ UNCHANGED <<sanVars, valVars, lsVars, conVars, rnVars, uqVars>>
    \/ ClStat
         /\ UNCHANGED <<sanVars, valVars, lsVars, conVars, rnVars, uqVars>>
    \/ ClRemove
         /\ UNCHANGED <<sanVars, valVars, lsVars, conVars, rnVars, uqVars>>
    \/ RnCheck
         /\ UNCHANGED <<sanVars, valVars, clVars, lsVars, conVars, uqVars>>
    \/ RnRemoveExisting
         /\ UNCHANGED <<sanVars, valVars, clVars, lsVars, conVars, uqVars>>
    \/ RnMove
         /\ UNCHANGED <<sanVars, valVars, clVars, lsVars, conVars, uqVars>>
    \/ RnReturn
         /\ UNCHANGED <<sanVars, valVars, clVars, lsVars, conVars, uqVars>>
    \/ Tick
         /\ UNCHANGED <<sanVars, valVars, clVars, lsVars, conVars, rnVars, uqVars>>

SpecConcurrent == InitConcurrent /\ [][NextConcurrent]_vars

InitUnique == UqInit /\ SanIdle /\ ValIdle /\ FsIdle /\ ClIdle /\ LsIdle /\ ConIdle /\ RnIdle

NextUnique ==
    \/ UqStart
         /\ UNCHANGED <<sanVars, valVars, clVars, lsVars, conVars, rnVars>>
    \/ UqTry
         /\ UNCHANGED <<sanVars, valVars, clVars, lsVars, conVars, rnVars>>

SpecUnique == InitUnique /\ [][NextUnique]_vars

\* the loop keeps running: a step that can be taken is taken
SpecUniqueLive == SpecUnique /\ WF_vars(NextUnique)

InitRename == RnInit /\ SanIdle /\ ValIdle /\ ClIdle /\ LsIdle /\ ConIdle /\ UqIdle

NextRename ==
    \/ RnCheck
         /\ UNCHANGED <<sanVars, valVars, clVars, lsVars, conVars, uqVars>>
    \/ RnRemoveExisting
         /\ UNCHANGED <<sanVars, valVars, clVars, lsVars, conVars, uqVars>>
    \/ RnMove
         /\ UNCHANGED <<sanVars, valVars, clVars, lsVars, conVars, uqVars>>
    \/ RnReturn
         /\ UNCHANGED <<sanVars, valVars, clVars, lsVars, conVars, uqVars>>

SpecRename == InitRename /\ [][NextRename]_vars

(***************************************************************************)
(* Claims                                                                  *)
(***************************************************************************)

\* the titles of a sequence of titles are pairwise distinct, each at most 31 long
DistinctShort(titles) ==
    /\ \A i \in 1..Len(titles) : Len(titles[i]) <= 31
    /\ \A i, k \in 1..Len(titles) : i # k => titles[i] # titles[k]

\* C1: in the output workbook, after every sheet consolidate adds, and in every
\* document it writes to disk, all sheet names are pairwise distinct and each
\* is at most 31 characters long.
C1_SheetNamesUniqueShort ==
    /\ \A j \in Jobs : DistinctShort([i \in 1..Len(jWb[j]) |-> jWb[j][i].title])
    /\ \A p \in Names : \A i \in 1..Len(fs[p].data) :
          fs[p].data[i].part = "workbook" => DistinctShort(fs[p].data[i].titles)

\* C1 witness: a saved document in which two source sheets with the same
\* 31-character candidate got distinct names, the second cut to make room for
\* its suffix, and a sheet whose candidate was 'Sheet' was renamed.
C1_Witness ==
    /\ jPc[1] = "done"
    /\ \E i \in 1..Len(jWb[1]) : jWb[1][i].title = <<"S", "h", "e", "e", "t", "_", "1">>
    /\ \E i, k \in 1..Len(jWb[1]) :
          /\ Len(jWb[1][i].title) = 31 /\ Len(jWb[1][k].title) = 31
          /\ jWb[1][k].title = SubSeq(jWb[1][i].title, 1, 29) \o <<"_", "1">>
          /\ jWb[1][k].title # jWb[1][i].title
    /\ fs["a"].data = Archive(1, jWb[1])

\* C2: when consolidate fails on an empty source list, a missing source or a
\* source that cannot be parsed, the file at the output path is as it was before
\* the call; and the file is touched only after every source was processed
\* without a failure.
C2_AllOrNothing ==
    \A j \in Jobs : jPc[j] # "idle" =>
        /\ jErr[j] \in {"empty", "missing", "corrupt"} => fs[jOut[j]] = fs0[jOut[j]]
        /\ fs[jOut[j]] # fs0[jOut[j]] =>
              /\ jIdx[j] > Len(jPaths[j])
              /\ jErr[j] \in {"none", "save"}

\* C2 witness: the second source cannot be parsed, after a sheet of the first
\* was copied, and a file was at the output path before the call.
C2_Witness ==
    /\ jPc[1] = "failed" /\ jErr[1] = "corrupt"
    /\ jIdx[1] = 2 /\ jCount[1] > 0
    /\ fs0["a"].kind = "file"

\* C3: when consolidate has returned or raised, every workbook it opened is
\* closed.
C3_HandlesClosed ==
    \A j \in Jobs : jPc[j] \in {"done", "failed"} => jHandles[j] = {}

\* C4: a document consolidate has saved holds at least one sheet copied from a
\* source and not the placeholder sheet; a job that copied no sheet does not
\* return normally.
C4_SavedHasRealSheets ==
    \A j \in Jobs : jPc[j] = "done" =>
        /\ jCount[j] > 0
        /\ \E i \in 1..Len(jWb[j]) : jWb[j][i].src # 0
        /\ \A i \in 1..Len(jWb[j]) : jWb[j][i].src # 0

\* job j's save has the file at path n open and is writing it
Writing(j, n) ==
    /\ jPc[j] = "write" /\ jOut[j] = n
    /\ fs[n].kind = "file" /\ fs[n].ino = jIno[j]

\* C5: two jobs with the same output filename never write the file at the same
\* time, and once both have returned the file holds the complete output of one
\* of them.
C5_WritesNeverInterleave ==
    /\ \A n \in Names : ~(Writing(1, n) /\ Writing(2, n))
    /\ (jPc[1] = "done" /\ jPc[2] = "done" /\ jOut[1] = jOut[2]
            /\ fs[jOut[1]].kind = "file")
          => \E j \in Jobs : fs[jOut[1]].data = Archive(j, jWb[j])

\* the file at n belongs to a job in flight: a consolidation is writing it, or
\* a rename has moved it into place and not yet returned
InFlight(n) ==
    \/ \E j \in Jobs : Writing(j, n)
    \/ rnPc = "moved" /\ rnNew = n /\ fs[n].kind = "file"

\* C6: cleanup never deletes the file an in-flight job is writing or has just
\* moved into place.
C6_CleanupSparesInFlight ==
    [][~(clPc = "remove" /\ InFlight(clCur) /\ fs'[clCur].kind = "none"
         /\ clDeleted' = clDeleted + 1)]_vars

\* C7: a failure on one file does not make listFiles or cleanup raise, and
\* listFiles still returns every file whose metadata stayed readable.
C7_PerFileFailureIsolated ==
    /\ lsPc # "raised"
    /\ clPc # "raised"
    /\ lsPc = "done" =>
          \A n \in Names :
              (fs0[n].kind = "file" /\ n \notin vanished /\ faultAt # n)
                  => \E i \in 1..Len(lsResult) : lsResult[i].filename = n

\* the regular files that were older than the cutoff when cleanup started and
\* that stayed in place with readable metadata
OldFiles ==
    {n \in Names : /\ fs0[n].kind = "file"
                   /\ fs0[n].mtime < clock - clMaxAge
                   /\ n \notin vanished
                   /\ ~(faultAt = n /\ faultKind = "stat")}

\* C8: when cleanup returns, it has deleted exactly the regular files strictly
\* older than now - maxAgeDays, every other entry is as it was, and the count it
\* returns is the number of files it deleted.
C8_CleanupExact ==
    clPc = "done" =>
        /\ clRemoved = OldFiles
        /\ \A n \in Names :
              IF n \in OldFiles \cup vanished THEN fs[n] = NoEntry ELSE fs[n] = fs0[n]
        /\ clDeleted = Cardinality(clRemoved)

\* C8 witness: cleanup returned 1 after deleting one old file and keeping a
\* file exactly at the cutoff, a newer file and nothing else changed.
C8_Witness ==
    /\ clPc = "done"
    /\ clDeleted = 1
    /\ vanished = {}
    /\ \E n \in Names : fs0[n].kind = "file" /\ fs0[n].mtime = clCutoff /\ fs[n] = fs0[n]
    /\ \E n \in Names : fs0[n].kind = "file" /\ fs0[n].mtime > clCutoff /\ fs[n] = fs0[n]

\* the path ends in .xlsx or .xls, each letter in either case
ExtensionAnyCase(path) ==
    \E e \in ExcelExtensions :
        /\ Len(path) >= Len(e)
        /\ \A i \in 1..Len(e) :
              LET c == path[Len(path) - Len(e) + i]
              IN  \/ c = e[i]
                  \/ e[i] = "x" /\ c = "X"
                  \/ e[i] = "l" /\ c = "L"
                  \/ e[i] = "s" /\ c = "S"

\* C9: validate never raises, and it returns true exactly when the path exists,
\* its size is at least 1000 bytes, its extension is .xlsx or .xls in any case,
\* and its first two bytes can be read and are 'PK'.
C9_ValidateIff ==
    /\ valResult # "raised"
    /\ valPc = "done" =>
          /\ valResult \in {"true", "false"}
          /\ valResult = "true" <=>
                /\ valFile.exists
                /\ valFile.size >= 1000
                /\ ExtensionAnyCase(valPath)
                /\ valFile.readable
                /\ Len(valFile.content) >= 2
                /\ valFile.content[1] = "P" /\ valFile.content[2] = "K"

\* C9 witness: validate accepted a 1000-byte file with an upper-case extension.
C9_Witness ==
    /\ valPc = "done" /\ valResult = "true"
    /\ valFile.size = 1000
    /\ valPath = <<"R", ".", "X", "L", "S", "X">>

\* C10: sanitizeFileName and sanitizeSheetName are idempotent: applying either
\* a second time returns the result of the first application unchanged.
C10_SanitizeIdempotent ==
    /\ Len(sanFile) = 2 => sanFile[2] = sanFile[1]
    /\ Len(sanSheet) = 2 => sanSheet[2] = sanSheet[1]

\* C10 witness: both sanitizers were applied twice to an input containing a
\* character both of them treat as invalid, long enough that the file name was
\* cut to 100 characters at an underscore and the sheet name to 31 characters.
C10_Witness ==
    /\ Len(sanFile) = 2 /\ Len(sanSheet) = 2
    /\ \E i \in 1..Len(sanIn) : sanIn[i] = "/"
    /\ Len(sanFile[1]) = MaxFileNameLen
    /\ sanFile[1][MaxFileNameLen] = "_"
    /\ sanFile[1] # Take(sanIn, MaxFileNameLen)
    /\ Len(sanSheet[1]) = MaxSheetNameLen
    /\ sanSheet[1] # Take(sanIn, MaxSheetNameLen)

\* C11: the search for a unique sheet name is bounded.  For every workbook and
\* every candidate name it ends: it returns, after no more suffix attempts than
\* the workbook has names plus one, a name that is not in the workbook, or it
\* fails as unresolvable; it never runs forever.
C11_SearchBounded ==
    /\ [](uqPc = "loop" => uqCounter <= Cardinality(uqExisting) + 1)
    /\ [](uqPc = "returned" =>
            /\ uqResult \notin Titles(uqWb)
            /\ uqResult = MakeUniqueSheetName(uqWb, uqName)
            /\ uqCounter <= Cardinality(Titles(uqWb)) + 1)
    /\ <>(uqPc \in {"returned", "unresolvable"})

\* C11 witness: the search returned after ten or more suffix attempts, with a
\* two-digit suffix on a name cut to make room for it.
C11_Witness ==
    /\ uqPc = "returned"
    /\ uqCounter >= 10
    /\ Len(uqName) = MaxSheetNameLen
    /\ Len(uqResult) = MaxSheetNameLen
    /\ uqResult = SubSeq(uqName, 1, MaxSheetNameLen - 3) \o <<"_">> \o Decimal(uqCounter)

\* C12: when rename_download has ended and the original path existed at the
\* call, it returned, and the target path holds the content the original file
\* had, whether or not a file was at the target before and also when the
\* original path is the target path; when the original path did not exist it
\* raised and the disk is as it was.
C12_RenameMovesContent ==
    rnPc \in {"done", "raised"} =>
        IF fs0[rnOrig].kind # "none"
        THEN /\ rnPc = "done"
             /\ fs[rnNew].kind = "file"
             /\ fs[rnNew].data = fs0[rnOrig].data
        ELSE /\ rnPc = "raised"
             /\ fs = fs0

====
